---- MODULE Spec2Model ----
(***************************************************************************)
(* Random circle packing by rejection sampling (Sample/sketch.js).         *)
(*                                                                         *)
(* packCircles() clears the global array `circles`, then loops: count an   *)
(* attempt, construct a random Circle inside the canvas, and push it when  *)
(* it collides with none of the circles placed so far.  The loop ends when *)
(* TARGET_COUNT circles are placed or MAX_ATTEMPTS attempts are used.      *)
(*                                                                         *)
(* Lengths are whole pixels.  PADDING = 1.5 is the fraction                *)
(* PADDING_NUM / PADDING_DEN, and the collision test is scaled by          *)
(* PADDING_DEN so that it stays in the integers.  p5's random(min, max)    *)
(* is min + u * (max - min) for u in [0, 1); u ranges over the fractions   *)
(* k / RandSteps, k in 0 .. RandSteps (the upper end covers rounding of    *)
(* the floating-point sum up to max).                                      *)
(***************************************************************************)
EXTENDS Integers, Sequences, FiniteSets, TLC

VARIABLES
    cfg,        \* the constants of the sketch this run is compiled with
    circles,    \* global `circles`: sequence of placed Circle objects
    attempts,   \* local `attempts` of packCircles
    candidate,  \* local `candidate` of the loop body: <<>> or <<Circle>>
    generated,  \* number of `new Circle()` evaluations in the current call
    pc,         \* "idle" (before draw), "running" (in the loop), "done"
    runs,       \* number of calls of packCircles so far
    tape,       \* random draws consumed by the current call (replay only)
    prev        \* <<>> or <<outcome of the previous call>> (replay only)

vars == <<cfg, circles, attempts, candidate, generated, pc, runs, tape, prev>>

----------------------------------------------------------------------------
(* Program constants                                                       *)

TARGET_COUNT == 250
MIN_R == 6
MAX_R == 30
PADDING_NUM == 3
PADDING_DEN == 2
MAX_ATTEMPTS == 200000
CANVAS_W == 500
CANVAS_H == 700

(* Bounds of the model                                                     *)

MaxTarget == 3        \* cap on TARGET_COUNT
MaxAttempts == 3      \* cap on MAX_ATTEMPTS
RandSteps == 1        \* random() yields min + k/RandSteps * (max - min)
MaxRuns == 2          \* calls of packCircles in one behaviour
ReplayAttempts == 3   \* cap on MAX_ATTEMPTS when draws are recorded

Min(a, b) == IF a < b THEN a ELSE b

----------------------------------------------------------------------------
(* Configurations: the sketch's own constants (counts capped), and the     *)
(* variations the properties speak about.                                  *)

Sketch ==
    [width |-> CANVAS_W, height |-> CANVAS_H, min_r |-> MIN_R, max_r |-> MAX_R,
     padNum |-> PADDING_NUM, target |-> Min(TARGET_COUNT, MaxTarget),
     max_attempts |-> Min(MAX_ATTEMPTS, MaxAttempts)]

\* 20x20 region, radius 6, padding 1.5, target 100, budget 1000
Saturation ==
    [width |-> 20, height |-> 20, min_r |-> MIN_R, max_r |-> MIN_R,
     padNum |-> PADDING_NUM, target |-> 100, max_attempts |-> 1000]

\* MIN_R and MAX_R exchanged: min_radius > max_radius
Inverted ==
    [Sketch EXCEPT !.min_r = MAX_R, !.max_r = MIN_R, !.width = 70, !.height = 70]

\* canvas narrower than 2 * MAX_R
Narrow ==
    [Sketch EXCEPT !.width = 40, !.height = 100]

\* radius 2, padding 1 (2/2), so minDist = 5: centres (2,2) and (7,2) are
\* exactly 5 apart, centres (2,2) and (2,6) are 4 apart (closer than minDist
\* only because of the padding)
Tight ==
    [width |-> 9, height |-> 8, min_r |-> 2, max_r |-> 2,
     padNum |-> 2, target |-> 2,
     max_attempts |-> Min(MAX_ATTEMPTS, MaxAttempts)]

\* nothing to place / no budget
Empty ==
    [Tight EXCEPT !.target = 0]
NoBudget ==
    [Tight EXCEPT !.max_attempts = 0]

\* the saturation geometry with the capped budget
Crowded ==
    [Saturation EXCEPT !.target = Min(100, MaxTarget),
                       !.max_attempts = Min(1000, MaxAttempts)]

Configs == {Sketch, Crowded, Inverted, Narrow, Tight, Empty, NoBudget}

SaturationConfigs == {Saturation, Crowded, Tight, NoBudget}

\* the tight region with min_radius > max_radius
InvertedTight ==
    [Tight EXCEPT !.min_r = 3, !.max_r = 2]

LiveConfigs == {Crowded, Tight, Empty, NoBudget, InvertedTight}

ReplayConfigs ==
    {[Sketch EXCEPT !.max_attempts = Min(MAX_ATTEMPTS, ReplayAttempts)],
     [Tight EXCEPT !.max_attempts = Min(MAX_ATTEMPTS, ReplayAttempts)],
     [Inverted EXCEPT !.max_attempts = Min(MAX_ATTEMPTS, ReplayAttempts)]}

WellFormed(c) ==
    /\ c.min_r <= c.max_r
    /\ c.width > 2 * c.max_r
    /\ c.height > 2 * c.max_r

----------------------------------------------------------------------------
(* Circle                                                                  *)

Units == 0 .. RandSteps
Draws == Units \X Units \X Units     \* one draw each for radius, x, y

\* p5 random(min, max): exchanges the bounds when min > max
random(min, max, k) ==
    LET lo == IF min > max THEN max ELSE min
        hi == IF min > max THEN min ELSE max
    IN  lo + ((hi - lo) * k) \div RandSteps

\* variant: the centre is drawn from the whole canvas
NewCircleAnywhere(c, d) ==
    LET r == random(c.min_r, c.max_r, d[1])
    IN  [radius |-> r,
         x |-> random(0, c.width, d[2]),
         y |-> random(0, c.height, d[3])]

\* variant: random(MAX_R) in place of random(MIN_R, MAX_R)
NewCircleRadiusFromZero(c, d) ==
    LET r == random(0, c.max_r, d[1])
    IN  [radius |-> r,
         x |-> random(r, c.width - r, d[2]),
         y |-> random(r, c.height - r, d[3])]

\* Circle.constructor
NewCircle(c, d) ==
    LET r == random(c.min_r, c.max_r, d[1])
    IN  [radius |-> r,
         x |-> random(r, c.width - r, d[2]),
         y |-> random(r, c.height - r, d[3])]

\* variant: PADDING left out of minDist
collidesWithCircleNoPadding(this, other, c) ==
    LET minDist == PADDING_DEN * (this.radius + other.radius)
        dx == this.x - other.x
        dy == this.y - other.y
    IN  PADDING_DEN * PADDING_DEN * (dx * dx + dy * dy) < minDist * minDist

\* variant: <= in place of <
collidesWithCircleInclusive(this, other, c) ==
    LET minDist == PADDING_DEN * (this.radius + other.radius) + c.padNum
        dx == this.x - other.x
        dy == this.y - other.y
    IN  PADDING_DEN * PADDING_DEN * (dx * dx + dy * dy) <= minDist * minDist

\* Circle.collidesWithCircle, both sides multiplied by PADDING_DEN^2
collidesWithCircle(this, other, c) ==
    LET minDist == PADDING_DEN * (this.radius + other.radius) + c.padNum
        dx == this.x - other.x
        dy == this.y - other.y
    IN  PADDING_DEN * PADDING_DEN * (dx * dx + dy * dy) < minDist * minDist

\* Circle.collides
collides(this, otherCircles, c) ==
    \E i \in 1 .. Len(otherCircles) : collidesWithCircle(this, otherCircles[i], c)

----------------------------------------------------------------------------
(* packCircles                                                             *)

\* variant: the target is not tested
LoopCondBudgetOnly ==
    attempts < cfg.max_attempts

\* variant: the budget is not tested
LoopCondTargetOnly ==
    Len(circles) < cfg.target

\* variant: the budget test is off by one
LoopCondOffByOne ==
    Len(circles) < cfg.target /\ attempts + 1 < cfg.max_attempts

\* variant: the loop is skipped when min_radius > max_radius
LoopCondValidated ==
    /\ cfg.min_r <= cfg.max_r
    /\ Len(circles) < cfg.target /\ attempts < cfg.max_attempts

\* the while condition
LoopCond ==
    Len(circles) < cfg.target /\ attempts < cfg.max_attempts

\* variant: the global array is not cleared
packCirclesEntryNoReset ==
    /\ circles' = circles
    /\ attempts' = 0

\* variant: the attempt counter outlives the call
packCirclesEntryKeepAttempts ==
    /\ circles' = <<>>
    /\ attempts' = attempts

\* entry of packCircles: circles = []; let attempts = 0
packCirclesEntry ==
    /\ circles' = <<>>
    /\ attempts' = 0

\* draw() calls packCircles()
Start ==
    /\ pc \in {"idle", "done"}
    /\ runs < MaxRuns
    /\ packCirclesEntry
    /\ candidate' = <<>>
    /\ generated' = 0
    /\ pc' = "running"
    /\ runs' = runs + 1
    /\ UNCHANGED cfg

\* one iteration of the loop with the random draws d
Step(d) ==
    /\ pc = "running"
    /\ LoopCond
    /\ attempts' = attempts + 1
    /\ LET cand == NewCircle(cfg, d)
       IN  /\ candidate' = <<cand>>
           /\ generated' = generated + 1
           /\ circles' = IF ~collides(cand, circles, cfg)
                         THEN Append(circles, cand)
                         ELSE circles
    /\ UNCHANGED <<cfg, pc, runs>>

\* the while condition is false: packCircles returns
Exit ==
    /\ pc = "running"
    /\ ~LoopCond
    /\ pc' = "done"
    /\ candidate' = <<>>
    /\ UNCHANGED <<cfg, circles, attempts, generated, runs>>

----------------------------------------------------------------------------
(* Specification: any number of draw() calls, fresh randomness.            *)

Init ==
    /\ cfg \in Configs
    /\ circles = <<>>
    /\ attempts = 0
    /\ candidate = <<>>
    /\ generated = 0
    /\ pc = "idle"
    /\ runs = 0
    /\ tape = <<>>
    /\ prev = <<>>

Draw == Start /\ UNCHANGED <<tape, prev>>
Iterate == \E d \in Draws : Step(d) /\ UNCHANGED <<tape, prev>>
LoopExit == Exit /\ UNCHANGED <<tape, prev>>

Next == Draw \/ Iterate \/ LoopExit

Spec == Init /\ [][Next]_vars

\* the same program compiled with the saturation scenario's constants
InitSaturation ==
    /\ cfg \in SaturationConfigs
    /\ circles = <<>>
    /\ attempts = 0
    /\ candidate = <<>>
    /\ generated = 0
    /\ pc = "idle"
    /\ runs = 0
    /\ tape = <<>>
    /\ prev = <<>>

SpecSaturation == InitSaturation /\ [][Next]_vars

\* packCircles is sequential code that never blocks: once called, its next
\* step (an iteration or the loop exit) is eventually executed
InitLive ==
    /\ cfg \in LiveConfigs
    /\ circles = <<>>
    /\ attempts = 0
    /\ candidate = <<>>
    /\ generated = 0
    /\ pc = "idle"
    /\ runs = 0
    /\ tape = <<>>
    /\ prev = <<>>

FairSpec ==
    InitLive /\ [][Next]_vars /\ WF_vars(Iterate \/ LoopExit)

----------------------------------------------------------------------------
(* Replay specification: the first call records its random draws, the      *)
(* second call is fed the same draws again (a seeded random source).       *)

InitReplay ==
    /\ cfg \in ReplayConfigs
    /\ circles = <<>>
    /\ attempts = 0
    /\ candidate = <<>>
    /\ generated = 0
    /\ pc = "idle"
    /\ runs = 0
    /\ tape = <<>>
    /\ prev = <<>>

FirstDraw ==
    /\ pc = "idle"
    /\ Start
    /\ UNCHANGED <<tape, prev>>

RecordIterate ==
    /\ prev = <<>>
    /\ \E d \in Draws : Step(d) /\ tape' = Append(tape, d)
    /\ UNCHANGED prev

SecondDraw ==
    /\ pc = "done"
    /\ prev = <<>>
    /\ Start
    /\ prev' = <<[tape |-> tape, circles |-> circles, attempts |-> attempts]>>
    /\ tape' = <<>>

ReplayIterate ==
    /\ prev # <<>>
    /\ Len(tape) < Len(prev[1].tape)
    /\ Step(prev[1].tape[Len(tape) + 1])
    /\ tape' = Append(tape, prev[1].tape[Len(tape) + 1])
    /\ UNCHANGED prev

NextReplay == FirstDraw \/ RecordIterate \/ LoopExit \/ SecondDraw \/ ReplayIterate

SpecReplay == InitReplay /\ [][NextReplay]_vars

----------------------------------------------------------------------------
(* Properties                                                              *)

\* distance^2 >= (a.radius + b.radius + padding)^2, padding = padNum / PADDING_DEN
Apart(a, b, padNum) ==
    LET dx == a.x - b.x
        dy == a.y - b.y
        sum == PADDING_DEN * (a.radius + b.radius) + padNum
    IN  PADDING_DEN * PADDING_DEN * (dx * dx + dy * dy) >= sum * sum

Touching(a, b, padNum) ==
    LET dx == a.x - b.x
        dy == a.y - b.y
        sum == PADDING_DEN * (a.radius + b.radius) + padNum
    IN  PADDING_DEN * PADDING_DEN * (dx * dx + dy * dy) = sum * sum

Rejected ==
    /\ candidate # <<>>
    /\ \/ circles = <<>>
       \/ circles[Len(circles)] # candidate[1]

\* C1: in every state of a packing run (mid-loop included) every two
\* distinct placed circles are at least radius + radius + PADDING apart.
NonOverlap ==
    \A i, j \in 1 .. Len(circles) :
        i # j => Apart(circles[i], circles[j], cfg.padNum)

\* mid-loop, after a rejection, with two placed circles exactly at the
\* minimum distance
NonOverlapWitness ==
    /\ pc = "running"
    /\ Len(circles) >= 2
    /\ attempts > Len(circles)
    /\ \E i, j \in 1 .. Len(circles) :
          i # j /\ Touching(circles[i], circles[j], cfg.padNum)

\* C2: for a region wider and higher than 2 * MAX_R (and MIN_R <= MAX_R)
\* every placed circle lies wholly inside the region.
Containment ==
    WellFormed(cfg) =>
        \A i \in 1 .. Len(circles) :
            LET c == circles[i]
            IN  /\ c.radius <= c.x /\ c.x <= cfg.width - c.radius
                /\ c.radius <= c.y /\ c.y <= cfg.height - c.radius

\* a placed circle of the largest radius touching the right and bottom edges
ContainmentWitness ==
    /\ WellFormed(cfg)
    /\ cfg.min_r < cfg.max_r
    /\ \E i \in 1 .. Len(circles) :
          /\ circles[i].radius = cfg.max_r
          /\ circles[i].x = cfg.width - cfg.max_r
          /\ circles[i].y = cfg.height - cfg.max_r

\* C3: attempts never exceeds max_attempts, and a running loop reaches done,
\* whatever the configuration and the draws.
Termination ==
    /\ [](attempts <= cfg.max_attempts)
    /\ [](pc = "running" => <>(pc = "done"))

\* the budget ran out with every candidate after the first rejected
TerminationWitness ==
    /\ pc = "done"
    /\ cfg.max_attempts >= 3
    /\ attempts = cfg.max_attempts
    /\ Len(circles) = 1
    /\ cfg.target > 1

\* C4: within a run the number of placed circles never decreases, and it
\* never exceeds target_count.
MonotonicGrowth ==
    [][/\ pc = "running" => Len(circles') >= Len(circles)
       /\ Len(circles) <= cfg.target
       /\ Len(circles') <= cfg.target]_vars

\* the target was met with budget to spare
MonotonicGrowthWitness ==
    /\ pc = "done"
    /\ cfg.target >= 2
    /\ Len(circles) = cfg.target
    /\ attempts < cfg.max_attempts

BudgetExhaustion ==
    pc = "done" =>
        /\ Len(circles) < cfg.target => attempts = cfg.max_attempts
        /\ cfg = Saturation => attempts = 1000 /\ Len(circles) < cfg.target

BudgetExhaustionWitness ==
    /\ pc = "done"
    /\ cfg = Saturation
    /\ attempts = 1000
    /\ Len(circles) = 1

\* C7: a second run fed the draws of the first never needs more draws than
\* the first consumed and ends with the same circles in the same order and
\* the same attempt count.
Determinism ==
    prev # <<>> =>
        /\ (pc = "running" /\ LoopCond) => Len(tape) < Len(prev[1].tape)
        /\ pc = "done" =>
              /\ circles = prev[1].circles
              /\ attempts = prev[1].attempts

\* the replayed run finished after both an acceptance and a rejection
DeterminismWitness ==
    /\ prev # <<>>
    /\ pc = "done"
    /\ Len(circles) >= 2
    /\ attempts > Len(circles)

\* C8: every call of packCircles starts from no circles and attempts = 0,
\* and the circles of a run are all placed by attempts of that run.
NoStateAcrossRuns ==
    [][/\ (pc # "running" /\ pc' = "running") =>
              circles' = <<>> /\ attempts' = 0
       /\ pc' = "running" => Len(circles') <= attempts']_vars

\* a second call has just started, after a first one had placed circles
NoStateAcrossRunsWitness ==
    /\ runs = 2
    /\ pc = "running"
    /\ cfg.target > 0 /\ cfg.max_attempts > 0
    /\ attempts = 0
    /\ circles = <<>>

\* C9: every placed circle has MIN_R <= radius <= MAX_R (for MIN_R <= MAX_R)
\* and keeps its radius while the run goes on.
RadiusBounds ==
    [][/\ cfg.min_r <= cfg.max_r =>
              \A i \in 1 .. Len(circles') :
                  /\ cfg.min_r <= circles'[i].radius
                  /\ circles'[i].radius <= cfg.max_r
       /\ pc = "running" =>
              \A i \in 1 .. Len(circles) :
                  /\ i <= Len(circles')
                  /\ circles'[i].radius = circles[i].radius]_vars

\* circles of the smallest and of the largest radius are both placed
RadiusBoundsWitness ==
    /\ cfg.min_r < cfg.max_r
    /\ \E i, j \in 1 .. Len(circles) :
          circles[i].radius = cfg.min_r /\ circles[j].radius = cfg.max_r

\* C10: an iteration adds 1 to attempts and constructs one candidate; a
\* candidate overlapping a placed circle leaves the sequence as it was, any
\* other candidate is appended behind the unchanged earlier circles.
StepEffect ==
    [][(pc = "running" /\ pc' = "running") =>
          /\ attempts' = attempts + 1
          /\ generated' = generated + 1
          /\ candidate' # <<>>
          /\ LET cand == candidate'[1]
                 overlaps == \E i \in 1 .. Len(circles) :
                                 ~Apart(cand, circles[i], cfg.padNum)
             IN  /\ overlaps => circles' = circles
                 /\ ~overlaps => circles' = Append(circles, cand)]_vars

\* the last candidate was discarded although two circles are placed
StepEffectWitness ==
    /\ pc = "running"
    /\ Len(circles) = 2
    /\ attempts >= 3
    /\ Rejected

====
